---- MODULE Spec2Model ----
(***************************************************************************)
(* A model of prinia's primer-design protocol layer:                       *)
(*   primer3.py       Primer3 (config encoding, oracle invocation) and the *)
(*                    decoder of primer3's output (parse_primer3_output),  *)
(*   primerdesign.py  the batch drivers primers_from_lovd and              *)
(*                    primers_from_region,                                 *)
(*   utils.py         is_at_least_version_samtools.                        *)
(* Text is modelled by TLA+ strings, so that prefixes, splits and decimal  *)
(* renderings are computed as the Python code computes them.               *)
(***************************************************************************)
EXTENDS Integers, Sequences, FiniteSets, TLC

VARIABLES
    \* ---- decoder (primer3.py, parse_primer3_output) ----
    lines,        \* the result lines handed to parse_primer3_output
    written,      \* ghost: the pairs the oracle wrote, in order
    strays,       \* ghost: number of lines written outside a pair block
    pc,           \* state of the generator: "oracle", "created", "suspended", "done", "raised"
    pair_ids,     \* pair_ids of parse_primer3_output (set by the first next())
    pos,          \* number of ids the for-loop has consumed
    delivered,    \* the candidates yielded to the caller so far
    err,          \* the message of the ValueError raised, "" when none
    \* ---- Primer3.run (primer3.py) ----
    params,       \* the Primer3 object's fields
    rpc,          \* the statement of run that was executed last
    cfg,          \* the transient configuration file and its handle
    out,          \* the NamedTemporaryFile of the result and its handle
    result_file,  \* the raw lines the oracle wrote to the result file
    oracle_calls, \* how many times the oracle executable was started
    oracle_saw,   \* what the oracle found in the configuration file when started
    reads,        \* how many times run opened the result file for reading
    retval,       \* retval of run
    run_err,      \* the exception run ended with, "" when none
    \* ---- batch drivers (primerdesign.py) ----
    driver,       \* "lovd" (primers_from_lovd) or "region" (primers_from_region)
    ignore_errors, \* the ignore_errors argument of primers_from_lovd
    m13,          \* the m13 argument
    items,        \* per variant / BED line: how its design ends, or "track"
    bi,           \* number of items the loop has passed
    b_objects,    \* the variants / regions to be returned
    b_primers,    \* the primers list
    bpc,          \* "loop", "returned" or "raised"
    skipped,      \* ghost: the items whose failed design was passed over
    report,       \* the rows primers_to_tsv wrote from the returned lists
    \* ---- is_at_least_version_samtools (utils.py) ----
    version_str,  \* the version string argument, with the version it denotes
    version_tupl, \* the version_tupl argument
    vres,         \* how the call ended, NotCalled before it
    \* ---- main (primerdesign.py) ----
    args,         \* the namespace parse_args returned
    mpc,          \* "parsed", "validated", "written", "done" or "raised"
    designer,     \* the design function main called, "" when none
    writer,       \* the writer main called and its type argument, "" when none
    fastq,        \* whether generate_fastq_from_primers was called
    main_err      \* the message of the exception main ended with, "" when none

decVars == <<lines, written, strays, pc, pair_ids, pos, delivered, err>>
runVars == <<params, rpc, cfg, out, result_file, oracle_calls, oracle_saw, reads,
             retval, run_err>>

batVars == <<driver, ignore_errors, m13, items, bi, b_objects, b_primers, bpc, skipped,
             report>>
verVars == <<version_str, version_tupl, vres>>

mainVars == <<args, mpc, designer, writer, fastq, main_err>>

vars == <<decVars, runVars, batVars, verVars, mainVars>>

\* what the actions of one part leave alone
notDec == <<runVars, batVars, verVars, mainVars>>
notRun == <<decVars, batVars, verVars, mainVars>>
notBat == <<decVars, runVars, verVars, mainVars>>
notVer == <<decVars, runVars, batVars, mainVars>>
notMain == <<decVars, runVars, batVars, verVars>>

(***************************************************************************)
(* Bounds of the model.                                                    *)
(***************************************************************************)
MaxPairs == 3        \* pairs the oracle writes in one output
MaxAnomalies == 1    \* omitted fields + '='-carrying values + stray lines
MaxItems == 3        \* variants of a LOVD file / lines of a BED file
MaxTupleLen == 3     \* elements of a version_tupl argument

(***************************************************************************)
(* Text helpers: Python's str operations on TLA+ strings.                  *)
(***************************************************************************)
Char(s, i) == SubSeq(s, i, i)

MinOf(S) == CHOOSE m \in S : \A n \in S : m <= n
MaxOf(S) == CHOOSE m \in S : \A n \in S : m >= n

\* s.startswith(p)
startswith(s, p) == Len(p) <= Len(s) /\ SubSeq(s, 1, Len(p)) = p

\* positions of character c in s
Places(s, c) == {i \in 1..Len(s) : Char(s, i) = c}

\* s.split(c)[-1]: what follows the LAST c (all of s when c does not occur)
split_last(s, c) ==
    IF Places(s, c) = {} THEN s
    ELSE SubSeq(s, MaxOf(Places(s, c)) + 1, Len(s))

\* s.split(c)[0]: what precedes the FIRST c (all of s when c does not occur)
split_first(s, c) ==
    IF Places(s, c) = {} THEN s
    ELSE SubSeq(s, 1, MinOf(Places(s, c)) - 1)

\* what follows the first c of s (used by the properties, not by the code)
AfterFirst(s, c) ==
    IF Places(s, c) = {} THEN s
    ELSE SubSeq(s, MinOf(Places(s, c)) + 1, Len(s))

\* p occurs in s
Contains(s, p) ==
    \E i \in 1..(Len(s) - Len(p) + 1) : SubSeq(s, i, i + Len(p) - 1) = p

DigitChars == <<"0", "1", "2", "3", "4", "5", "6", "7", "8", "9">>
Digits == {DigitChars[i] : i \in 1..10}
DigitVal(c) == (CHOOSE i \in 1..10 : DigitChars[i] = c) - 1

\* length of the maximal run of digits of s that starts at position from (\d+, greedy)
DigitRun(s, from) ==
    LET stops == {i \in from..Len(s) : Char(s, i) \notin Digits}
    IN  IF stops = {} THEN Len(s) - from + 1 ELSE MinOf(stops) - from

\* int(d) for a string of decimal digits
RECURSIVE StrToInt(_)
StrToInt(d) ==
    IF Len(d) = 0 THEN 0
    ELSE 10 * StrToInt(SubSeq(d, 1, Len(d) - 1)) + DigitVal(Char(d, Len(d)))

\* "{0}".format(n) for an integer n
RECURSIVE IntToStr(_)
IntToStr(n) ==
    IF n < 0 THEN "-" \o IntToStr(0 - n)
    ELSE IF n < 10 THEN DigitChars[n + 1]
    ELSE IntToStr(n \div 10) \o DigitChars[(n % 10) + 1]

(***************************************************************************)
(* The decoder: _parse_single_pair_id and parse_primer3_output.            *)
(***************************************************************************)
left_seq_key(id)  == "PRIMER_LEFT_" \o IntToStr(id) \o "_SEQUENCE="
right_seq_key(id) == "PRIMER_RIGHT_" \o IntToStr(id) \o "_SEQUENCE="
\* a position key that does not end the index with '='
left_pos_key_NoTerminator(id) == "PRIMER_LEFT_" \o IntToStr(id)
left_pos_key(id)  == "PRIMER_LEFT_" \o IntToStr(id) \o "="
right_pos_key(id) == "PRIMER_RIGHT_" \o IntToStr(id) \o "="
left_gc_key(id)   == "PRIMER_LEFT_" \o IntToStr(id) \o "_GC_PERCENT"
right_gc_key(id)  == "PRIMER_RIGHT_" \o IntToStr(id) \o "_GC_PERCENT"

\* the six lookups, by the name the code gives each
FieldNames == <<"left", "right", "left_gc", "right_gc", "left_pos", "right_pos">>
SeqGcNames == <<"left", "right", "left_gc", "right_gc">>
PosNames == <<"left_pos", "right_pos">>

KeyOf(name, id) ==
    CASE name = "left"      -> left_seq_key(id)
      [] name = "right"     -> right_seq_key(id)
      [] name = "left_gc"   -> left_gc_key(id)
      [] name = "right_gc"  -> right_gc_key(id)
      [] name = "left_pos"  -> left_pos_key(id)
      [] name = "right_pos" -> right_pos_key(id)

\* [x for x in lines if x.startswith(key)]
Matching(ls, key) == SelectSeq(ls, LAMBDA x : startswith(x, key))

\* the first loop's error message
SeqGcError(name) == "Value for " \o name \o " must have exactly one match"
\* the second loop's error message
PosError(name) == "Vale for " \o name \o " must have exactly one match"

\* the first loop's extraction
SeqGcValue(line) == split_last(line, "=")
\* the second loop's extraction
PosValue(line) == split_first(split_last(line, "="), ",")

\* a cardinality test that falls back to the first of several matches
BadCount_FirstMatch(val) == Len(val) = 0

\* the cardinality test both loops make
BadCount(val) == Len(val) # 1

\* _parse_single_pair_id(id, lines): [ok |-> TRUE, primer |-> d] when it returns,
\* [ok |-> FALSE, msg |-> m] when it raises ValueError(m)
parse_single_pair_id(id, ls) ==
    LET val(name) == Matching(ls, KeyOf(name, id))
        bad1 == {i \in 1..4 : BadCount(val(SeqGcNames[i]))}
        bad2 == {i \in 1..2 : BadCount(val(PosNames[i]))}
    IN  IF bad1 # {} THEN [ok |-> FALSE, msg |-> SeqGcError(SeqGcNames[MinOf(bad1)])]
        ELSE IF bad2 # {} THEN [ok |-> FALSE, msg |-> PosError(PosNames[MinOf(bad2)])]
        ELSE [ok |-> TRUE,
              primer |-> [left      |-> SeqGcValue(val("left")[1]),
                          right     |-> SeqGcValue(val("right")[1]),
                          left_gc   |-> SeqGcValue(val("left_gc")[1]),
                          right_gc  |-> SeqGcValue(val("right_gc")[1]),
                          left_pos  |-> PosValue(val("left_pos")[1]),
                          right_pos |-> PosValue(val("right_pos")[1])]]

\* seq_re = '^PRIMER_LEFT_(\d+)_SEQUENCE=.+$': the digits of a matching line, "" otherwise
SeqReGroup(line) ==
    LET pre == "PRIMER_LEFT_"
        n == DigitRun(line, Len(pre) + 1)
        rest == SubSeq(line, Len(pre) + n + 1, Len(line))
    IN  IF /\ startswith(line, pre)
           /\ n >= 1
           /\ startswith(rest, "_SEQUENCE=")
           /\ Len(rest) > Len("_SEQUENCE=")
        THEN SubSeq(line, Len(pre) + 1, Len(pre) + n)
        ELSE ""

\* the discovered ids sorted numerically instead of kept in line order
RECURSIVE InsertSorted(_, _)
InsertSorted(n, q) ==
    IF q = <<>> THEN <<n>>
    ELSE IF n <= Head(q) THEN <<n>> \o q
    ELSE <<Head(q)>> \o InsertSorted(n, Tail(q))

RECURSIVE PairIds_Sorted(_)
PairIds_Sorted(ls) ==
    IF ls = <<>> THEN <<>>
    ELSE IF SeqReGroup(Head(ls)) = "" THEN PairIds_Sorted(Tail(ls))
    ELSE InsertSorted(StrToInt(SeqReGroup(Head(ls))), PairIds_Sorted(Tail(ls)))

\* pair_ids = [int(x.group(1)) for x in matches if x is not None]
RECURSIVE PairIds(_)
PairIds(ls) ==
    IF ls = <<>> THEN <<>>
    ELSE IF SeqReGroup(Head(ls)) = "" THEN PairIds(Tail(ls))
    ELSE <<StrToInt(SeqReGroup(Head(ls)))>> \o PairIds(Tail(ls))

(***************************************************************************)
(* The oracle's result file.  primer3 writes one block of lines per pair;  *)
(* the result may also lack a field of a pair, carry a value that holds a  *)
(* '=' itself, or end with lines outside any pair block.                   *)
(***************************************************************************)
IdTexts == {"1", "2", "3", "10"}
Styles == {"plain", "eq"}
Omits == {"none", "left", "right", "left_gc", "right_gc", "left_pos", "right_pos"}

LeftSeqOf(p)  == IF p.style = "eq" THEN "AC=GT" ELSE "ACGTAC"
RightSeqOf(p) == "TTGCA"
LeftPosOf(p)  ==
    (IF p.style = "eq" THEN "7=" ELSE "") \o IntToStr(10 + StrToInt(p.id)) \o ",20"
RightPosOf(p) == IntToStr(200 + StrToInt(p.id)) \o ",20"
LeftGcOf(p)   == IF p.style = "eq" THEN "5=5.0" ELSE "55.0"
RightGcOf(p)  == "45.0"

Keep(p, name, line) == IF p.omit = name THEN <<>> ELSE <<line>>

PairLines(p) ==
    Keep(p, "left",      "PRIMER_LEFT_" \o p.id \o "_SEQUENCE=" \o LeftSeqOf(p))
    \o Keep(p, "right",     "PRIMER_RIGHT_" \o p.id \o "_SEQUENCE=" \o RightSeqOf(p))
    \o Keep(p, "left_pos",  "PRIMER_LEFT_" \o p.id \o "=" \o LeftPosOf(p))
    \o Keep(p, "right_pos", "PRIMER_RIGHT_" \o p.id \o "=" \o RightPosOf(p))
    \o <<"PRIMER_LEFT_" \o p.id \o "_TM=60.1">>
    \o Keep(p, "left_gc",   "PRIMER_LEFT_" \o p.id \o "_GC_PERCENT=" \o LeftGcOf(p))
    \o Keep(p, "right_gc",  "PRIMER_RIGHT_" \o p.id \o "_GC_PERCENT=" \o RightGcOf(p))

StrayLines ==
    {"PRIMER_LEFT_1_SEQUENCE=GGGG",
     "PRIMER_RIGHT_1=300,20",
     "PRIMER_LEFT_01_SEQUENCE=TTTT",
     "PRIMER_LEFT_2_SEQUENCE=",
     "PRIMER_LEFT_1_GC_PERCENT_MAX=80.0",
     "PRIMER_PAIR_0_PENALTY=0.5"}

Anomalies ==
    strays + Cardinality({i \in 1..Len(written) :
                            written[i].omit # "none" \/ written[i].style = "eq"})

IdleDecode ==
    /\ lines = <<>>
    /\ written = <<>>
    /\ strays = 0
    /\ pc = "oracle"
    /\ pair_ids = <<>>
    /\ pos = 0
    /\ delivered = <<>>
    /\ err = ""

\* the oracle writes the block of one pair
OracleWritePair(id, omit, style) ==
    LET p == [id |-> id, omit |-> omit, style |-> style]
    IN  /\ pc = "oracle"
        /\ Len(written) < MaxPairs
        /\ strays = 0
        /\ \A i \in 1..Len(written) : written[i].id # id
        /\ Anomalies + (IF omit # "none" \/ style = "eq" THEN 1 ELSE 0) <= MaxAnomalies
        /\ ~(omit # "none" /\ style = "eq")
        /\ lines' = lines \o PairLines(p)
        /\ written' = Append(written, p)
        /\ UNCHANGED <<strays, pc, pair_ids, pos, delivered, err>>
        /\ UNCHANGED notDec

\* the oracle writes a line outside the pair blocks, after them
OracleWriteLine(l) ==
    /\ pc = "oracle"
    /\ Anomalies + 1 <= MaxAnomalies
    /\ lines' = Append(lines, l)
    /\ strays' = strays + 1
    /\ UNCHANGED <<written, pc, pair_ids, pos, delivered, err>>
    /\ UNCHANGED notDec

\* parse_primer3_output(lines): the call only creates the generator
parse_primer3_output ==
    /\ pc = "oracle"
    /\ pc' = "created"
    /\ UNCHANGED <<lines, written, strays, pair_ids, pos, delivered, err>>
    /\ UNCHANGED notDec

\* next() on the generator: the first one computes pair_ids; each one runs the
\* loop body for the next id and yields its Primer, propagates its ValueError,
\* or ends the iteration
GeneratorNext ==
    /\ pc \in {"created", "suspended"}
    /\ LET ids == IF pc = "created" THEN PairIds(lines) ELSE pair_ids
       IN  /\ pair_ids' = ids
           /\ IF pos >= Len(ids)
              THEN /\ pc' = "done"
                   /\ UNCHANGED <<pos, delivered, err>>
              ELSE LET r == parse_single_pair_id(ids[pos + 1], lines)
                   IN  IF r.ok
                       THEN /\ pc' = "suspended"
                            /\ pos' = pos + 1
                            /\ delivered' = Append(delivered, r.primer)
                            /\ err' = err
                       ELSE /\ pc' = "raised"
                            /\ err' = r.msg
                            /\ UNCHANGED <<pos, delivered>>
    /\ UNCHANGED <<lines, written, strays>>
    /\ UNCHANGED notDec

NextDecode ==
    \/ \E id \in IdTexts, omit \in Omits, style \in Styles : OracleWritePair(id, omit, style)
    \/ \E l \in StrayLines : OracleWriteLine(l)
    \/ parse_primer3_output
    \/ GeneratorNext

(***************************************************************************)
(* Primer3: the derived values, create_config and run.                     *)
(***************************************************************************)
\* int(x) for the float x = t / 2: truncation towards zero
TruncHalf(t) == IF t >= 0 THEN t \div 2 ELSE 0 - ((0 - t) \div 2)

\* Primer3.range
range(p) == IntToStr(p.min_product_size) \o "-" \o IntToStr(p.max_product_size)

\* an optimum size that rounds the midpoint up
opt_size_RoundUp(p) == (p.min_product_size + p.max_product_size + 1) \div 2

\* Primer3.opt_size: int(min + float(max - min) / 2)
opt_size(p) ==
    TruncHalf(2 * p.min_product_size + (p.max_product_size - p.min_product_size))

\* cfg_str of create_config, line by line
cfg_str(p) ==
    << "SEQUENCE_ID=example",
       "SEQUENCE_TEMPLATE=" \o p.template,
       "SEQUENCE_TARGET=" \o p.target,
       "SEQUENCE_EXCLUDED_REGION=" \o p.excluded_region,
       "PRIMER_TASK=pick_detection_primers",
       "PRIMER_PICK_LEFT_PRIMER=1",
       "PRIMER_PICK_INTERNAL_OLIGO=0",
       "PRIMER_PICK_RIGHT_PRIMER=1",
       "PRIMER_MIN_GC=20.0",
       "PRIMER_INTERNAL_MIN_GC=20.0",
       "PRIMER_OPT_GC_PERCENT=" \o IntToStr(p.opt_gc_perc),
       "PRIMER_MAX_GC=80.0",
       "PRIMER_INTERNAL_MAX_GC=80.0",
       "PRIMER_WT_GC_PERCENT_LT=0.0",
       "PRIMER_INTERNAL_WT_GC_PERCENT_LT=0.0",
       "PRIMER_GC_CLAMP=0",
       "PRIMER_MAX_END_GC=5",
       "PRIMER_OPT_SIZE=" \o IntToStr(p.opt_prim_length),
       "PRIMER_MIN_SIZE=" \o IntToStr(p.opt_prim_length - 5),
       "PRIMER_MAX_SIZE=" \o IntToStr(p.opt_prim_length + 5),
       "PRIMER_MAX_NS_ACCEPTED=0",
       "PRIMER_PRODUCT_SIZE_RANGE=" \o range(p),
       "PRIMER_PRODUCT_OPT_SIZE=" \o IntToStr(opt_size(p)),
       "PRIMER_PAIR_WT_PRODUCT_SIZE_GT=0.1",
       "PRIMER_PAIR_WT_PRODUCT_SIZE_LT=0.1",
       "P3_FILE_FLAG=1",
       "SEQUENCE_INTERNAL_EXCLUDED_REGION=37,21",
       "PRIMER_EXPLAIN_FLAG=1",
       "PRIMER_MIN_TM=" \o IntToStr(p.min_melting_t),
       "PRIMER_MAX_TM=" \o IntToStr(p.max_melting_t),
       "PRIMER_NUM_RETURN=200",
       "=" >>

\* l.strip(): leading and trailing whitespace removed
Whitespace == {" ", "\t", "\n", "\r"}
RECURSIVE strip(_)
strip(l) ==
    IF Len(l) = 0 THEN l
    ELSE IF Char(l, 1) \in Whitespace THEN strip(SubSeq(l, 2, Len(l)))
    ELSE IF Char(l, Len(l)) \in Whitespace THEN strip(SubSeq(l, 1, Len(l) - 1))
    ELSE l

\* the arguments a caller may construct Primer3 with
MinProductSizes == {1, 2, 200, 201, 600}
MaxProductSizes == {2, 3, 400, 600}
PrimLengths == {5, 25}

Primer3Objects ==
    {[template |-> "ACGTACGTACGTACGTACGT", target |-> "10,2", excluded_region |-> "0,5",
      opt_prim_length |-> len, opt_gc_perc |-> 50,
      min_melting_t |-> 58, max_melting_t |-> 62,
      min_product_size |-> lo, max_product_size |-> hi] :
        lo \in MinProductSizes, hi \in MaxProductSizes, len \in PrimLengths}

\* what the oracle may leave in the result file
ResultFiles ==
    { <<>>,
      << "SEQUENCE_ID=example\n",
         "PRIMER_LEFT_0_SEQUENCE=ACGTACGTAC \n",
         "PRIMER_RIGHT_0_SEQUENCE=TTGCATTGCA\n",
         "PRIMER_LEFT_0=10,20\n",
         "PRIMER_RIGHT_0=250,20\n",
         "PRIMER_LEFT_0_GC_PERCENT=50.000\n",
         "PRIMER_RIGHT_0_GC_PERCENT=40.000\n",
         "=\n" >> }

\* the exceptions run can end with
ExecErrors == {"OSError", "CalledProcessError"}

IdleRun ==
    /\ rpc = "start"
    /\ cfg = [exists |-> FALSE, open |-> FALSE, written |-> <<>>, on_disk |-> <<>>]
    /\ out = [exists |-> FALSE, open |-> FALSE]
    /\ result_file = <<>>
    /\ oracle_calls = 0
    /\ oracle_saw = [closed |-> FALSE, text |-> <<>>]
    /\ reads = 0
    /\ retval = <<>>
    /\ run_err = ""

\* cfg = NamedTemporaryFile(delete=False, mode="w")
CreateCfg ==
    /\ rpc = "start"
    /\ cfg' = [cfg EXCEPT !.exists = TRUE, !.open = TRUE]
    /\ rpc' = "cfg_created"
    /\ UNCHANGED <<params, out, result_file, oracle_calls, oracle_saw, reads, retval, run_err>>
    /\ UNCHANGED notRun

\* out = NamedTemporaryFile()
CreateOut ==
    /\ rpc = "cfg_created"
    /\ out' = [exists |-> TRUE, open |-> TRUE]
    /\ rpc' = "out_created"
    /\ UNCHANGED <<params, cfg, result_file, oracle_calls, oracle_saw, reads, retval, run_err>>
    /\ UNCHANGED notRun

\* self.create_config(cfg): handle.write(cfg_str), buffered by the handle
create_config ==
    /\ rpc = "out_created"
    /\ cfg' = [cfg EXCEPT !.written = cfg_str(params)]
    /\ rpc' = "cfg_written"
    /\ UNCHANGED <<params, out, result_file, oracle_calls, oracle_saw, reads, retval, run_err>>
    /\ UNCHANGED notRun

\* cfg.close(): the buffer reaches the file
CloseCfg ==
    /\ rpc = "cfg_written"
    /\ cfg' = [cfg EXCEPT !.open = FALSE, !.on_disk = cfg.written]
    /\ rpc' = "cfg_closed"
    /\ UNCHANGED <<params, out, result_file, oracle_calls, oracle_saw, reads, retval, run_err>>
    /\ UNCHANGED notRun

\* check_call(args) starts the oracle, which finds the configuration file as it is
StartOracle ==
    /\ oracle_calls' = oracle_calls + 1
    /\ oracle_saw' = [closed |-> ~cfg.open, text |-> cfg.on_disk]

\* a check_call that starts the oracle again after a failure
check_call_raises_Retry(e) ==
    /\ rpc = "cfg_closed"
    /\ oracle_calls < 3
    /\ StartOracle
    /\ UNCHANGED <<params, rpc, cfg, out, result_file, reads, retval, run_err>>
    /\ UNCHANGED notRun

\* check_call(args): the oracle exits with status 0, having written its result
check_call_returns(f) ==
    /\ rpc = "cfg_closed"
    /\ StartOracle
    /\ result_file' = f
    /\ rpc' = "called"
    /\ UNCHANGED <<params, cfg, out, reads, retval, run_err>>
    /\ UNCHANGED notRun

\* check_call(args): the executable cannot be run (OSError) or exits non-zero
\* (CalledProcessError); the exception leaves run
check_call_raises(e) ==
    /\ rpc = "cfg_closed"
    /\ StartOracle
    /\ rpc' = "raised"
    /\ run_err' = e
    /\ UNCHANGED <<params, cfg, out, result_file, reads, retval>>
    /\ UNCHANGED notRun

\* retval = []; with open(out.name) as handle: retval.append(l.strip()) for each line
ReadResult ==
    /\ rpc = "called"
    /\ reads' = reads + 1
    /\ retval' = [i \in 1..Len(result_file) |-> strip(result_file[i])]
    /\ rpc' = "read"
    /\ UNCHANGED <<params, cfg, out, result_file, oracle_calls, oracle_saw, run_err>>
    /\ UNCHANGED notRun

\* open(out.name) or the iteration over the handle raises IOError
ReadResultRaises ==
    /\ rpc = "called"
    /\ reads' = reads + 1
    /\ rpc' = "raised"
    /\ run_err' = "IOError"
    /\ UNCHANGED <<params, cfg, out, result_file, oracle_calls, oracle_saw, retval>>
    /\ UNCHANGED notRun

\* out.close(): a NamedTemporaryFile is deleted when closed
CloseOut ==
    /\ rpc = "read"
    /\ out' = [exists |-> FALSE, open |-> FALSE]
    /\ rpc' = "out_closed"
    /\ UNCHANGED <<params, cfg, result_file, oracle_calls, oracle_saw, reads, retval, run_err>>
    /\ UNCHANGED notRun

\* os.remove(cfg.name)
RemoveCfg ==
    /\ rpc = "out_closed"
    /\ cfg' = [cfg EXCEPT !.exists = FALSE]
    /\ rpc' = "cfg_removed"
    /\ UNCHANGED <<params, out, result_file, oracle_calls, oracle_saw, reads, retval, run_err>>
    /\ UNCHANGED notRun

\* return retval
Return ==
    /\ rpc = "cfg_removed"
    /\ rpc' = "returned"
    /\ UNCHANGED <<params, cfg, out, result_file, oracle_calls, oracle_saw, reads, retval, run_err>>
    /\ UNCHANGED notRun

NextRun ==
    \/ CreateCfg
    \/ CreateOut
    \/ create_config
    \/ CloseCfg
    \/ \E f \in ResultFiles : check_call_returns(f)
    \/ \E e \in ExecErrors : check_call_raises(e)
    \/ ReadResult
    \/ ReadResultRaises
    \/ CloseOut
    \/ RemoveCfg
    \/ Return

(***************************************************************************)
(* The batch drivers: primers_from_lovd and primers_from_region.           *)
(***************************************************************************)
\* how get_primer_from_region ends for a variant or region
Outcomes == {"ok", "noprimers"}
\* a BED line is a track line or a region
BedKinds == Outcomes \cup {"track"}

SeqsUpTo(S, n) == UNION {[1..k -> S] : k \in 0..n}

\* prims[0] of a successful design for item j
PrimerFor(j) == [designed_for |-> j, left |-> "ACGT", right |-> "TTGC"]

\* m13_primers(primers, m13_for, m13_rev)
m13_primers(primers, m13_for, m13_rev) ==
    [k \in 1..Len(primers) |->
        [primers[k] EXCEPT !.left = m13_for \o @, !.right = m13_rev \o @]]

\* an except branch that passes over the failed variant whatever the caller asked
lovd_except_AlwaysContinue(ignore) == "continue"

\* the except NoPrimersException branch of primers_from_lovd
lovd_except(ignore) == IF ignore THEN "continue" ELSE "raise"

IdleBatch ==
    /\ bi = 0
    /\ b_objects = <<>>
    /\ b_primers = <<>>
    /\ bpc = "loop"
    /\ skipped = {}
    /\ report = [done |-> FALSE, rows |-> <<>>]

\* variants = var_from_lovd(lovd_file); primers = []
\* regions = []; primers = []
InitBatch ==
    /\ driver \in {"lovd", "region"}
    /\ ignore_errors \in BOOLEAN
    /\ m13 \in BOOLEAN
    /\ items \in SeqsUpTo(IF driver = "lovd" THEN Outcomes ELSE BedKinds, MaxItems)
    /\ driver = "region" => ~ignore_errors
    /\ IdleBatch

\* one pass of the for-loop of primers_from_lovd whose design succeeds
LovdDesigned ==
    /\ driver = "lovd" /\ bpc = "loop" /\ bi < Len(items)
    /\ items[bi + 1] = "ok"
    /\ b_primers' = Append(b_primers, PrimerFor(bi + 1))
    /\ bi' = bi + 1
    /\ UNCHANGED <<driver, ignore_errors, m13, items, b_objects, bpc, skipped, report>>
    /\ UNCHANGED notBat

\* one pass of the for-loop of primers_from_lovd whose design raises NoPrimersException
LovdFailed ==
    /\ driver = "lovd" /\ bpc = "loop" /\ bi < Len(items)
    /\ items[bi + 1] = "noprimers"
    /\ IF lovd_except(ignore_errors) = "continue"
       THEN /\ skipped' = skipped \cup {bi + 1}
            /\ bi' = bi + 1
            /\ bpc' = bpc
       ELSE /\ bpc' = "raised"
            /\ UNCHANGED <<bi, skipped>>
    /\ UNCHANGED <<driver, ignore_errors, m13, items, b_objects, b_primers, report>>
    /\ UNCHANGED notBat

\* the end of primers_from_lovd: return variants, primers
LovdReturn ==
    /\ driver = "lovd" /\ bpc = "loop" /\ bi = Len(items)
    /\ b_objects' = [j \in 1..Len(items) |-> j]
    /\ b_primers' = IF m13 THEN m13_primers(b_primers, "TGTAAAACGACGGCCAGT", "CAGGAAACAGCTATGACC")
                    ELSE b_primers
    /\ bpc' = "returned"
    /\ UNCHANGED <<driver, ignore_errors, m13, items, bi, skipped, report>>
    /\ UNCHANGED notBat

\* one pass of the for-loop of primers_from_region over a track line
RegionTrackLine ==
    /\ driver = "region" /\ bpc = "loop" /\ bi < Len(items)
    /\ items[bi + 1] = "track"
    /\ bi' = bi + 1
    /\ UNCHANGED <<driver, ignore_errors, m13, items, b_objects, b_primers, bpc, skipped, report>>
    /\ UNCHANGED notBat

\* one pass of the for-loop of primers_from_region whose design succeeds
RegionDesigned ==
    /\ driver = "region" /\ bpc = "loop" /\ bi < Len(items)
    /\ items[bi + 1] = "ok"
    /\ b_objects' = Append(b_objects, bi + 1)
    /\ b_primers' = Append(b_primers, PrimerFor(bi + 1))
    /\ bi' = bi + 1
    /\ UNCHANGED <<driver, ignore_errors, m13, items, bpc, skipped, report>>
    /\ UNCHANGED notBat

\* one pass of the for-loop of primers_from_region whose design raises: nothing
\* catches the exception
RegionFailed ==
    /\ driver = "region" /\ bpc = "loop" /\ bi < Len(items)
    /\ items[bi + 1] = "noprimers"
    /\ bpc' = "raised"
    /\ UNCHANGED <<driver, ignore_errors, m13, items, bi, b_objects, b_primers, skipped, report>>
    /\ UNCHANGED notBat

\* the end of primers_from_region: return regions, primers
RegionReturn ==
    /\ driver = "region" /\ bpc = "loop" /\ bi = Len(items)
    /\ b_primers' = IF m13 THEN m13_primers(b_primers, "TGTAAAACGACGGCCAGT", "CAGGAAACAGCTATGACC")
                    ELSE b_primers
    /\ bpc' = "returned"
    /\ UNCHANGED <<driver, ignore_errors, m13, items, bi, b_objects, skipped, report>>
    /\ UNCHANGED notBat

\* zip(object, primers): pairs by position, as long as the shorter list
zip(objects, primers) ==
    [k \in 1..(IF Len(objects) <= Len(primers) THEN Len(objects) ELSE Len(primers)) |->
        [object |-> objects[k], primer |-> primers[k]]]

\* primers_to_tsv(object, primers, tsv): one row per pair of the zip
primers_to_tsv ==
    /\ bpc = "returned" /\ ~report.done
    /\ report' = [done |-> TRUE, rows |-> zip(b_objects, b_primers)]
    /\ UNCHANGED <<driver, ignore_errors, m13, items, bi, b_objects, b_primers, bpc, skipped>>
    /\ UNCHANGED notBat

NextBatch ==
    \/ primers_to_tsv
    \/ LovdDesigned
    \/ LovdFailed
    \/ LovdReturn
    \/ RegionTrackLine
    \/ RegionDesigned
    \/ RegionFailed
    \/ RegionReturn

(***************************************************************************)
(* is_at_least_version_samtools.                                           *)
(***************************************************************************)
\* a version string, with the (major, minor) it denotes, <<>> when it denotes none
VersionStrs ==
    {[text |-> "1.9",                        denotes |-> <<1, 9>>],
     [text |-> "samtools 1.9",               denotes |-> <<1, 9>>],
     [text |-> "1.10",                       denotes |-> <<1, 10>>],
     [text |-> "samtools 0.1.19-44428cd",    denotes |-> <<0, 1>>],
     [text |-> "samtools 1.3.1-42-g0a15035", denotes |-> <<1, 3>>],
     [text |-> "2.0",                        denotes |-> <<2, 0>>],
     [text |-> "10.2",                       denotes |-> <<10, 2>>],
     [text |-> "01.09",                      denotes |-> <<1, 9>>],
     [text |-> "samtools 1.9 2.1",           denotes |-> <<2, 1>>],
     [text |-> "samtools",                   denotes |-> <<>>],
     [text |-> "",                           denotes |-> <<>>],
     [text |-> "1.",                         denotes |-> <<>>],
     [text |-> ".9",                         denotes |-> <<>>],
     [text |-> "v1.9",                       denotes |-> <<>>],
     [text |-> "1x.9",                       denotes |-> <<>>],
     [text |-> "1.9 ",                       denotes |-> <<>>],
     [text |-> "1.9 beta",                   denotes |-> <<>>]}

\* the elements a version_tupl may hold: ints, and a str
TupleElems ==
    {[type |-> "int", val |-> n] : n \in {0, 1, 2, 9, 10}} \cup {[type |-> "str", val |-> 9]}

\* regex.match for '^(\d+)\.(\d+).*$': <<group(1), group(2)>>, <<>> for None
regex_match(w) ==
    LET n1 == DigitRun(w, 1)
        n2 == DigitRun(w, n1 + 2)
    IN  IF n1 >= 1 /\ Len(w) >= n1 + 1 /\ Char(w, n1 + 1) = "." /\ n2 >= 1
        THEN <<SubSeq(w, 1, n1), SubSeq(w, n1 + 2, n1 + 1 + n2)>>
        ELSE <<>>

\* a comparison of each component on its own
tuple_ge_Componentwise(a, b) == a[1] >= b[1] /\ a[2] >= b[2]

\* a >= b for 2-tuples of ints: lexicographic
tuple_ge(a, b) == a[1] > b[1] \/ (a[1] = b[1] /\ a[2] >= b[2])

\* how a call ends: by an exception or with a boolean
NotCalled == [kind |-> "not called", exc |-> "", ret |-> FALSE]
Raises(e) == [kind |-> "raises", exc |-> e, ret |-> FALSE]
Returns(b) == [kind |-> "returns", exc |-> "", ret |-> b]

is_at_least_version_samtools(s, tupl) ==
    LET match == IF Places(s, " ") = {} THEN regex_match(s)
                 ELSE regex_match(split_last(s, " "))
    IN  IF Len(tupl) # 2 THEN Raises("ValueError")
        ELSE IF \E k \in 1..Len(tupl) : tupl[k].type # "int" THEN Raises("TypeError")
        ELSE IF match = <<>> THEN Raises("ValueError")
        ELSE Returns(tuple_ge(<<StrToInt(match[1]), StrToInt(match[2])>>,
                              <<tupl[1].val, tupl[2].val>>))

IdleVersion ==
    /\ version_str = [text |-> "", denotes |-> <<>>]
    /\ version_tupl = <<>>
    /\ vres = NotCalled

InitVersion ==
    /\ version_str \in VersionStrs
    /\ version_tupl \in SeqsUpTo(TupleElems, MaxTupleLen)
    /\ vres = NotCalled

CallIsAtLeastVersion ==
    /\ vres = NotCalled
    /\ vres' = is_at_least_version_samtools(version_str.text, version_tupl)
    /\ UNCHANGED <<version_str, version_tupl>>
    /\ UNCHANGED notVer

NextVersion == CallIsAtLeastVersion

(***************************************************************************)
(* main: the checks after parse_args and the dispatch.                     *)
(***************************************************************************)
\* an option that was not given has the value None
None == "None"
\* the truth value Python gives an option's value (allele_freq is a number)
Truthy(v) == v # None /\ v # "" /\ v # "0.0"

\* the namespaces parse_args can return: the two required mutually exclusive
\* groups give exactly one of lovd / region and exactly one of xml / tsv
Namespaces ==
    {[lovd |-> IF input = "lovd" THEN "in.lovd" ELSE None,
      region |-> IF input = "region" THEN "in.bed" ELSE None,
      xml |-> IF output = "xml" THEN "o.xml" ELSE None,
      tsv |-> IF output = "tsv" THEN "o.tsv" ELSE None,
      sample |-> sample, field |-> field, allele_freq |-> af,
      fq1 |-> fq1, fq2 |-> fq2] :
        input \in {"lovd", "region"}, output \in {"xml", "tsv"},
        sample \in {None, "S1"}, field \in {None, "AF"}, af \in {"0.0", "0.05"},
        fq1 \in {None, "r1.fq"}, fq2 \in {None, "r2.fq"}}

\* the message of the check that fails, "" when all four pass
validate(a) ==
    IF ~Truthy(a.lovd) /\ ~Truthy(a.region) THEN "Please supply an input file"
    ELSE IF ~Truthy(a.xml) /\ ~Truthy(a.tsv) THEN "Please supply an output file"
    ELSE IF Truthy(a.region) /\ ~Truthy(a.sample) THEN "Must submit a sample ID"
    ELSE IF Truthy(a.field) /\ ~Truthy(a.allele_freq) THEN "Must set an allele frequency"
    ELSE ""

\* the branch of the if / elif chain that main takes
branch(a) ==
    IF Truthy(a.lovd) /\ Truthy(a.xml) THEN 1
    ELSE IF Truthy(a.region) /\ Truthy(a.xml) THEN 2
    ELSE IF Truthy(a.xml) /\ Truthy(a.tsv) THEN 3
    ELSE IF Truthy(a.region) /\ Truthy(a.tsv) THEN 4
    ELSE 5

\* the design function each branch calls
DesignerOf(b) == IF b \in {1, 3} THEN "primers_from_lovd" ELSE "primers_from_region"
\* the writer each branch calls, with its type argument
WriterOf(b) ==
    CASE b = 1 -> "primers_to_xml:variants"
      [] b = 2 -> "primers_to_xml:regions"
      [] b = 3 -> "primers_to_tsv:variants"
      [] b = 4 -> "primers_to_tsv:regions"

IdleMain ==
    /\ mpc = "parsed"
    /\ designer = ""
    /\ writer = ""
    /\ fastq = FALSE
    /\ main_err = ""

IdleMainArgs ==
    /\ args = CHOOSE a \in Namespaces :
                 /\ a.lovd # None /\ a.xml # None /\ a.sample = None /\ a.field = None
                 /\ a.allele_freq = "0.0" /\ a.fq1 = None /\ a.fq2 = None
    /\ IdleMain

\* the four checks that follow parse_args
MainValidate ==
    /\ mpc = "parsed"
    /\ IF validate(args) = ""
       THEN /\ mpc' = "validated"
            /\ main_err' = main_err
       ELSE /\ mpc' = "raised"
            /\ main_err' = validate(args)
    /\ UNCHANGED <<args, designer, writer, fastq>>
    /\ UNCHANGED notMain

\* the if / elif chain: the design function of the branch, which returns or
\* raises, then the writer of the branch; the else branch raises
MainDispatch(designed) ==
    /\ mpc = "validated"
    /\ LET b == branch(args)
       IN  IF b = 5
           THEN /\ mpc' = "raised"
                /\ main_err' = "Something odd happened"
                /\ UNCHANGED <<designer, writer>>
           ELSE /\ designer' = DesignerOf(b)
                /\ IF designed
                   THEN /\ writer' = WriterOf(b)
                        /\ mpc' = "written"
                        /\ main_err' = main_err
                   ELSE /\ writer' = writer
                        /\ mpc' = "raised"
                        /\ main_err' = "NoPrimersException"
    /\ UNCHANGED <<args, fastq>>
    /\ UNCHANGED notMain

\* if args.fq1 and args.fq2: generate_fastq_from_primers(...)
MainFastq ==
    /\ mpc = "written"
    /\ fastq' = (Truthy(args.fq1) /\ Truthy(args.fq2))
    /\ mpc' = "done"
    /\ UNCHANGED <<args, designer, writer, main_err>>
    /\ UNCHANGED notMain

NextMain ==
    \/ MainValidate
    \/ \E designed \in BOOLEAN : MainDispatch(designed)
    \/ MainFastq

(***************************************************************************)
(* The specifications.                                                     *)
(***************************************************************************)
DefaultParams == CHOOSE p \in Primer3Objects : p.min_product_size = 200 /\ p.max_product_size = 600 /\ p.opt_prim_length = 25

IdleParams == params = DefaultParams
IdleBatchArgs ==
    /\ driver = "lovd" /\ ignore_errors = FALSE /\ m13 = FALSE /\ items = <<>>
    /\ IdleBatch

InitDecode == IdleDecode /\ IdleRun /\ IdleParams /\ IdleBatchArgs /\ IdleVersion /\ IdleMainArgs
SpecDecode == InitDecode /\ [][NextDecode]_vars

InitRun == IdleRun /\ params \in Primer3Objects /\ IdleDecode /\ IdleBatchArgs /\ IdleVersion /\ IdleMainArgs
SpecRun == InitRun /\ [][NextRun]_vars

InitBatchDrivers == InitBatch /\ IdleDecode /\ IdleRun /\ IdleParams /\ IdleVersion /\ IdleMainArgs
SpecBatch == InitBatchDrivers /\ [][NextBatch]_vars

InitVersionCheck == InitVersion /\ IdleDecode /\ IdleRun /\ IdleParams /\ IdleBatchArgs /\ IdleMainArgs
SpecVersion == InitVersionCheck /\ [][NextVersion]_vars

InitMain ==
    /\ args \in Namespaces /\ IdleMain
    /\ IdleDecode /\ IdleRun /\ IdleParams /\ IdleBatchArgs /\ IdleVersion
SpecMain == InitMain /\ [][NextMain]_vars

(***************************************************************************)
(* Properties of the decoder.                                              *)
(***************************************************************************)
\* number of lines of the full output that a lookup key matches
Count(key) == Cardinality({i \in 1..Len(lines) : startswith(lines[i], key)})
AllExactlyOne(id) == \A n \in 1..6 : Count(KeyOf(FieldNames[n], id)) = 1
\* the one line a lookup of an index matches
TheLine(name, id) ==
    lines[CHOOSE i \in 1..Len(lines) : startswith(lines[i], KeyOf(name, id))]
\* the index the generator was decoding when it raised
FailingId == pair_ids[pos + 1]

\* C1: decoding a discovered index succeeds only if each of its six lookups
\* matches exactly one line of the full output; an index with a lookup that
\* matches no line or several lines raises and yields no candidate (no fall
\* back to the first match).
C1_ExactlyOne ==
    /\ Len(delivered) = pos
    /\ \A j \in 1..Len(delivered) : AllExactlyOne(pair_ids[j])
    /\ pc = "raised" => ~AllExactlyOne(FailingId)
    /\ pc = "done" => /\ pos = Len(pair_ids)
                      /\ \A j \in 1..Len(pair_ids) : AllExactlyOne(pair_ids[j])

\* C1 witness: decoding raised on an index one of whose lookups matches two lines
C1_Witness ==
    /\ pc = "raised"
    /\ \E n \in 1..6 : Count(KeyOf(FieldNames[n], FailingId)) > 1

\* C3 (as claimed): when decoding raises, the caller has received no candidate.
C3_NoPartialResults == pc = "raised" => delivered = <<>>

\* the oracle wrote complete pair blocks and nothing else
WellFormed ==
    /\ strays = 0
    /\ \A i \in 1..Len(written) : written[i].omit = "none"

\* C4: for a well-formed output the generator yields one candidate per pair, in
\* the order the pairs' PRIMER_LEFT_<i>_SEQUENCE lines appear (the order the
\* oracle wrote them), never raising; the candidate at position k carries the
\* right position of the k-th pair written.
C4_DiscoveryOrder ==
    WellFormed =>
        /\ pc # "raised"
        /\ Len(delivered) <= Len(written)
        /\ \A k \in 1..Len(delivered) :
              delivered[k].right_pos = IntToStr(200 + StrToInt(written[k].id))
        /\ pc = "done" => Len(delivered) = Len(written)

\* C4 witness: pairs written in the order 3, 1, 2 and all three decoded
C4_Witness ==
    /\ pc = "done"
    /\ WellFormed
    /\ Len(written) = 3
    /\ <<written[1].id, written[2].id, written[3].id>> = <<"3", "1", "2">>
    /\ Len(delivered) = 3

\* C5 (as claimed): every field of a yielded candidate is what follows the first
\* '=' of its matched line (for positions, cut before the first ',').
C5_AfterFirstEquals ==
    \A j \in 1..Len(delivered) :
        /\ \A n \in 1..4 :
              delivered[j][SeqGcNames[n]]
                  = AfterFirst(TheLine(SeqGcNames[n], pair_ids[j]), "=")
        /\ \A n \in 1..2 :
              delivered[j][PosNames[n]]
                  = split_first(AfterFirst(TheLine(PosNames[n], pair_ids[j]), "="), ",")

\* C6 (as claimed): the error raised for a failing index names a failing field
\* and the index.
C6_ErrorNamesFieldAndIndex ==
    pc = "raised" =>
        /\ \E n \in 1..6 :
              /\ Count(KeyOf(FieldNames[n], FailingId)) # 1
              /\ Contains(err, " " \o FieldNames[n] \o " ")
        /\ Contains(err, IntToStr(FailingId))

(***************************************************************************)
(* Properties of Primer3.run and create_config.                            *)
(***************************************************************************)
RunEnded == rpc \in {"returned", "raised"}

\* C2 (as claimed): when run has ended, by return or by exception, the transient
\* configuration file is gone and the result file handle is closed.
C2_CleanupOnEveryPath == RunEnded => (~cfg.exists /\ ~out.open)

\* the value the written configuration gives a key
ConfigValue(key) ==
    LET at == {i \in 1..Len(cfg.written) : startswith(cfg.written[i], key \o "=")}
    IN  IF Cardinality(at) = 1
        THEN AfterFirst(cfg.written[CHOOSE i \in at : TRUE], "=")
        ELSE "?"

\* a / b truncated towards zero, for b > 0
TruncDiv(a, b) == IF a >= 0 THEN a \div b ELSE 0 - ((0 - a) \div b)

ValidSizes ==
    /\ params.min_product_size > 0
    /\ params.max_product_size > 0
    /\ params.opt_prim_length > 0
    /\ params.min_product_size < params.max_product_size

\* C7: with positive sizes and min_product_size < max_product_size, the written
\* configuration carries PRIMER_PRODUCT_SIZE_RANGE = "<min>-<max>",
\* PRIMER_PRODUCT_OPT_SIZE = min + ((max - min) div 2), PRIMER_MIN_SIZE =
\* opt_prim_length - 5 and PRIMER_MAX_SIZE = opt_prim_length + 5, in decimal.
C7_DerivedValues ==
    (cfg.written # <<>> /\ ValidSizes) =>
        /\ ConfigValue("PRIMER_PRODUCT_SIZE_RANGE")
              = ToString(params.min_product_size) \o "-" \o ToString(params.max_product_size)
        /\ ConfigValue("PRIMER_PRODUCT_OPT_SIZE")
              = ToString(params.min_product_size
                         + TruncDiv(params.max_product_size - params.min_product_size, 2))
        /\ ConfigValue("PRIMER_MIN_SIZE") = ToString(params.opt_prim_length - 5)
        /\ ConfigValue("PRIMER_MAX_SIZE") = ToString(params.opt_prim_length + 5)

\* C7 witness: sizes 200 and 400 were written as range 200-400, optimum 300
C7_Witness ==
    /\ params.min_product_size = 200
    /\ params.max_product_size = 400
    /\ cfg.on_disk # <<>>
    /\ ConfigValue("PRIMER_PRODUCT_SIZE_RANGE") = "200-400"
    /\ ConfigValue("PRIMER_PRODUCT_OPT_SIZE") = "300"

\* C8: run starts the oracle at most once, and only when the configuration file
\* holds the whole configuration and its handle is closed; once the oracle could
\* not be run or exited non-zero, run has ended in that error after exactly one
\* start, having neither read the result file nor collected any line; run gets
\* past check_call only after exactly one start.
C8_OracleOnce ==
    /\ oracle_calls <= 1
    /\ oracle_calls >= 1 =>
          /\ oracle_saw.closed
          /\ oracle_saw.text = cfg.written
          /\ Len(oracle_saw.text) > 0
          /\ oracle_saw.text[Len(oracle_saw.text)] = "="
    /\ run_err \in ExecErrors =>
          /\ rpc = "raised"
          /\ oracle_calls = 1
          /\ reads = 0
          /\ retval = <<>>
    /\ rpc \in {"called", "read", "out_closed", "cfg_removed", "returned"} =>
          oracle_calls = 1

\* C8 witness: the oracle exited non-zero and run ended in that error
C8_Witness ==
    /\ rpc = "raised"
    /\ run_err = "CalledProcessError"
    /\ oracle_calls = 1

(***************************************************************************)
(* Properties of the batch drivers.                                        *)
(***************************************************************************)
OptedIn == driver = "lovd" /\ ignore_errors
FailedItems == {j \in 1..Len(items) : items[j] = "noprimers"}

\* C9: a failed design is passed over only by primers_from_lovd called with
\* ignore_errors true, which then passes over every failed variant and returns;
\* without it (primers_from_lovd by default, primers_from_region always) the
\* driver ends in the exception at the first failing item and returns only when
\* no design failed.
C9_SkipOnlyOnOptIn ==
    /\ skipped # {} => OptedIn
    /\ OptedIn =>
          /\ bpc # "raised"
          /\ skipped = {j \in FailedItems : j <= bi}
    /\ ~OptedIn =>
          /\ bpc = "raised" => (bi + 1 \in FailedItems /\ \A j \in FailedItems : j > bi)
          /\ bpc = "returned" => FailedItems = {}
          /\ bpc = "loop" => \A j \in FailedItems : j > bi

\* C9 witness: primers_from_lovd with ignore_errors false ended in the exception
\* at a failing variant that follows a designed one
C9_Witness ==
    /\ driver = "lovd" /\ ~ignore_errors
    /\ bpc = "raised"
    /\ bi >= 1
    /\ Len(b_primers) = bi

(***************************************************************************)
(* Properties of is_at_least_version_samtools.                             *)
(***************************************************************************)
AllInts(t) == \A k \in 1..Len(t) : t[k].type = "int"

\* C10: the call raises ValueError for a version_tupl not of 2 elements,
\* else TypeError for one holding a non-integer, else ValueError for a string
\* whose (last) word does not start with <digits>.<digits>; otherwise it returns
\* whether the (major, minor) the string denotes is lexicographically at least
\* version_tupl.
C10_VersionAtLeast ==
    vres # NotCalled =>
        IF Len(version_tupl) # 2 THEN vres = Raises("ValueError")
        ELSE IF ~AllInts(version_tupl) THEN vres = Raises("TypeError")
        ELSE IF version_str.denotes = <<>> THEN vres = Raises("ValueError")
        ELSE LET major == version_str.denotes[1]
                 minor == version_str.denotes[2]
                 t1 == version_tupl[1].val
                 t2 == version_tupl[2].val
             IN  vres = Returns(major > t1 \/ (major = t1 /\ minor >= t2))

\* C10 witness: "samtools 1.3.1-42-g0a15035" is at least (1, 2) although its
\* major.minor is followed by a patch level and a commit suffix, and "2.0" is
\* at least (1, 9) although its minor is smaller
C10_Witness ==
    /\ vres = Returns(TRUE)
    /\ \/ /\ version_str.text = "samtools 1.3.1-42-g0a15035"
          /\ version_tupl = <<[type |-> "int", val |-> 1], [type |-> "int", val |-> 2]>>
       \/ /\ version_str.text = "2.0"
          /\ version_tupl = <<[type |-> "int", val |-> 1], [type |-> "int", val |-> 9]>>

\* C11 (as claimed): what primers_from_lovd returns is aligned: as many primers
\* as variants, the primer at position k designed for the variant at position
\* k, so that no row of the report pairs a primer with another variant.
C11_ReturnedListsAligned ==
    (driver = "lovd" /\ bpc = "returned") =>
        /\ Len(b_primers) = Len(b_objects)
        /\ \A k \in 1..Len(b_primers) : b_primers[k].designed_for = b_objects[k]
        /\ \A k \in 1..Len(report.rows) :
              report.rows[k].primer.designed_for = report.rows[k].object

\* the key of a result line read as PRIMER_{LEFT|RIGHT}_<index>[_<SUFFIX>]: what
\* precedes the first '=', cut into side, decimal index and suffix
ParseKey(line) ==
    LET key == split_first(line, "=")
        side == IF startswith(key, "PRIMER_LEFT_") THEN "PRIMER_LEFT_"
                ELSE IF startswith(key, "PRIMER_RIGHT_") THEN "PRIMER_RIGHT_"
                ELSE ""
        n == DigitRun(key, Len(side) + 1)
    IN  [keyed |-> side # "" /\ n >= 1,
         index |-> StrToInt(SubSeq(key, Len(side) + 1, Len(side) + n)),
         suffix |-> SubSeq(key, Len(side) + n + 1, Len(key))]
\* the lines of the output a lookup counts
Counted(name, id) == {i \in 1..Len(lines) : startswith(lines[i], KeyOf(name, id))}

\* C13: a lookup for a discovered index i counts only lines whose key carries
\* the index i, never one of another index j (1 against 10 included), and a
\* position lookup for i counts no line with a suffix, so neither the sequence
\* nor the GC-percent line of i.
C13_LookupsIsolateIndex ==
    \A j \in 1..Len(pair_ids) : \A n \in 1..6 :
        \A i \in Counted(FieldNames[n], pair_ids[j]) :
            /\ ParseKey(lines[i]).keyed
            /\ ParseKey(lines[i]).index = pair_ids[j]
            /\ n \in {5, 6} => ParseKey(lines[i]).suffix = ""

\* C13 witness: the output held the blocks of indices 1 and 10 and both were
\* decoded and delivered
C13_Witness ==
    /\ pc = "done"
    /\ \E a, b \in 1..Len(pair_ids) : pair_ids[a] = 1 /\ pair_ids[b] = 10
    /\ Len(delivered) = Len(pair_ids)
    /\ \A j \in 1..Len(pair_ids) : \A n \in 1..6 : Counted(FieldNames[n], pair_ids[j]) # {}

(***************************************************************************)
(* Properties of main.                                                     *)
(***************************************************************************)
\* C12 (as claimed): for each accepted combination of input and output (with a
\* sample for region input) main never ends in 'Something odd happened', and
\* once it has written, it called the design function of the input given and
\* the writer of the output given.
C12_DispatchMatchesArguments ==
    (args.region # None => args.sample # None) =>
        /\ main_err # "Something odd happened"
        /\ mpc \in {"written", "done"} =>
              /\ designer = (IF args.lovd # None THEN "primers_from_lovd"
                             ELSE "primers_from_region")
              /\ writer = (IF args.xml # None THEN "primers_to_xml" ELSE "primers_to_tsv")
                          \o (IF args.lovd # None THEN ":variants" ELSE ":regions")

====
